---- MODULE Spec2Model ----
(***************************************************************************)
(* Cost accounting (lib/costs.py) and parsed-document storage              *)
(* (lib/parse.py) of the Deal Signal experiment harness.                   *)
(*                                                                         *)
(* Units.  Python floats are modelled by exact decimal arithmetic:         *)
(*   - a USD amount is an integer number of nano-USD (1e-9 USD);           *)
(*   - a price "USD per 1M tokens" is held as nano-USD per token times     *)
(*     1000, i.e. PRICING[m].input = 2500 stands for 2.50 USD / 1M tokens  *)
(*     = 2500 nano-USD per token.  (tokens / 1_000_000) * price-in-USD is  *)
(*     then tokens * price nano-USD, exactly;                              *)
(*   - a quotient total / len(entries) is the pair [num, den];             *)
(*   - a timestamp (datetime.utcnow().isoformat()) is the clock reading,   *)
(*     an integer; ISO-8601 strings of one format order as their instants. *)
(***************************************************************************)
EXTENDS Integers, Sequences, FiniteSets, TLC

VARIABLES
    call,       \* last calculate_cost call: its arguments and its result
    entries,    \* the caller's list of CostEntry (one Python list object)
    ret,        \* last aggregate_costs call: arguments, exception, value
    file,       \* the durable JSON file at the path given to save_costs
    last_ok,    \* history: the file and the entries of the last save_costs that returned
    out_dir,    \* the output directory given to save_parsed / load_parsed
    saved_doc   \* history: the document of the last save_parsed call

vars == <<call, entries, ret, file, last_ok, out_dir, saved_doc>>

----------------------------------------------------------------------------
(* Bounds of the model *)

MaxTokens == 2      \* token counts of a call range over -1 .. MaxTokens
MaxLatency == 1     \* latency_ms of a call ranges over 0 .. MaxLatency
MaxClock == 2       \* clock readings range over 1 .. MaxClock
MaxEntries == 3     \* longest entries list the caller builds

----------------------------------------------------------------------------
(* lib/costs.py: pricing and calculate_cost *)

\* PRICING, in nano-USD per token (= USD per 1M tokens * 1000).
PRICING ==
    [m \in {"claude-3-5-sonnet-20241022", "claude-3-opus-20240229",
            "claude-3-5-haiku-20241022", "gpt-4o", "gpt-4o-mini",
            "gpt-4-turbo", "gemini-1.5-pro", "gemini-1.5-flash"} |->
        CASE m = "claude-3-5-sonnet-20241022" -> [input |-> 3000,  output |-> 15000]
          [] m = "claude-3-opus-20240229"     -> [input |-> 15000, output |-> 75000]
          [] m = "claude-3-5-haiku-20241022"  -> [input |-> 800,   output |-> 4000]
          [] m = "gpt-4o"                     -> [input |-> 2500,  output |-> 10000]
          [] m = "gpt-4o-mini"                -> [input |-> 150,   output |-> 600]
          [] m = "gpt-4-turbo"                -> [input |-> 10000, output |-> 30000]
          [] m = "gemini-1.5-pro"             -> [input |-> 1250,  output |-> 5000]
          [] m = "gemini-1.5-flash"           -> [input |-> 75,    output |-> 300]]

\* PRICING.get(model, {"input": 0, "output": 0})
PricingGet(model) ==
    IF model \in DOMAIN PRICING THEN PRICING[model] ELSE [input |-> 0, output |-> 0]

\* Mutant: total_cost forgets the output cost.
calculate_cost_total_input_only(model, input_tokens, output_tokens, latency_ms, now) ==
    LET pricing == PricingGet(model)
        input_cost == input_tokens * pricing.input
        output_cost == output_tokens * pricing.output
    IN  [model |-> model, input_tokens |-> input_tokens,
         output_tokens |-> output_tokens,
         total_tokens |-> input_tokens + output_tokens,
         input_cost |-> input_cost, output_cost |-> output_cost,
         total_cost |-> input_cost,
         latency_ms |-> latency_ms, timestamp |-> now]

\* Mutant: an unknown model is priced with a non-zero default.
calculate_cost_default_price(model, input_tokens, output_tokens, latency_ms, now) ==
    LET pricing == IF model \in DOMAIN PRICING THEN PRICING[model]
                   ELSE [input |-> 1000, output |-> 1000]
        input_cost == input_tokens * pricing.input
        output_cost == output_tokens * pricing.output
    IN  [model |-> model, input_tokens |-> input_tokens,
         output_tokens |-> output_tokens,
         total_tokens |-> input_tokens + output_tokens,
         input_cost |-> input_cost, output_cost |-> output_cost,
         total_cost |-> input_cost + output_cost,
         latency_ms |-> latency_ms, timestamp |-> now]

\* Mutant: the output tokens are priced with the input price.
calculate_cost_input_price_twice(model, input_tokens, output_tokens, latency_ms, now) ==
    LET pricing == PricingGet(model)
        input_cost == input_tokens * pricing.input
        output_cost == output_tokens * pricing.input
    IN  [model |-> model, input_tokens |-> input_tokens,
         output_tokens |-> output_tokens,
         total_tokens |-> input_tokens + output_tokens,
         input_cost |-> input_cost, output_cost |-> output_cost,
         total_cost |-> input_cost + output_cost,
         latency_ms |-> latency_ms, timestamp |-> now]

\* calculate_cost(model, input_tokens, output_tokens, latency_ms); `now` is
\* the reading of datetime.utcnow() taken while the entry is built.
calculate_cost(model, input_tokens, output_tokens, latency_ms, now) ==
    LET pricing == PricingGet(model)
        input_cost == input_tokens * pricing.input
        output_cost == output_tokens * pricing.output
    IN  [model |-> model, input_tokens |-> input_tokens,
         output_tokens |-> output_tokens,
         total_tokens |-> input_tokens + output_tokens,
         input_cost |-> input_cost, output_cost |-> output_cost,
         total_cost |-> input_cost + output_cost,
         latency_ms |-> latency_ms, timestamp |-> now]

----------------------------------------------------------------------------
(* Callers of calculate_cost *)

UnknownModel == "unknown-model-xyz"

ModelIds == DOMAIN PRICING \cup {UnknownModel}

\* price_call("gpt-4o-mini", 1_000_000, 500_000, latency_ms=250)
ScenarioCall ==
    [model |-> "gpt-4o-mini", input_tokens |-> 1000000,
     output_tokens |-> 500000, latency_ms |-> 250]

\* The argument tuples calculate_cost is called with.
CallArgs ==
    [model : ModelIds, input_tokens : (-1) .. MaxTokens,
     output_tokens : (-1) .. MaxTokens, latency_ms : 0 .. MaxLatency]
    \cup {ScenarioCall}

NoCall == [called |-> FALSE]

\* One call of calculate_cost; the result is kept by the caller.
CalculateCost ==
    /\ \E a \in CallArgs, now \in 1 .. MaxClock :
          call' = [called |-> TRUE, args |-> a, now |-> now,
                   result |-> calculate_cost(a.model, a.input_tokens,
                                             a.output_tokens, a.latency_ms, now)]
    /\ UNCHANGED <<entries, ret, file, last_ok, out_dir, saved_doc>>

----------------------------------------------------------------------------
(* lib/costs.py: aggregate_costs *)

\* Python's sum(e.<field> for e in entries): a left fold from 0.
RECURSIVE sum(_, _)
sum(es, field) ==
    IF es = <<>> THEN 0
    ELSE sum(SubSeq(es, 1, Len(es) - 1), field) + es[Len(es)][field]

\* The float quotient a / b, kept exact.
Div(a, b) == [num |-> a, den |-> b]

\* RunCosts(entries=entries, ...) stores the list object it was passed, not
\* a copy: the field holds a reference to the caller's list.
EntriesRef == "ref:entries"

\* The list a reference designates, as it is now.
Deref(ref) == IF ref = EntriesRef THEN entries ELSE <<>>

\* What a call does: it raises an exception or returns a value.
NoValue == [none |-> TRUE]
Raise(exc) == [raised |-> exc, returned |-> FALSE, value |-> NoValue]
Return(v) == [raised |-> "", returned |-> TRUE, value |-> v]

\* Mutant: total_tokens counts the input tokens only and the averages
\* divide by one entry too many.
RunCostsOf_wrong_totals(es, run_id) ==
    LET total_input == sum(es, "input_tokens")
        total_output == sum(es, "output_tokens")
        total_cost == sum(es, "total_cost")
        total_latency == sum(es, "latency_ms")
    IN  [run_id |-> run_id, entries |-> EntriesRef,
         total_input_tokens |-> total_input,
         total_output_tokens |-> total_output,
         total_tokens |-> total_input,
         total_cost |-> total_cost,
         total_latency_ms |-> total_latency,
         avg_latency_ms |-> Div(total_latency, Len(es) + 1),
         cost_per_question |-> Div(total_cost, Len(es) + 1),
         model |-> es[1].model,
         started_at |-> es[1].timestamp,
         completed_at |-> es[Len(es)].timestamp]

\* Mutant: started_at / completed_at are the earliest and the latest
\* timestamp of the entries instead of the first and the last one.
RunCostsOf_sorted_timing(es, run_id) ==
    LET total_input == sum(es, "input_tokens")
        total_output == sum(es, "output_tokens")
        total_cost == sum(es, "total_cost")
        total_latency == sum(es, "latency_ms")
        stamps == {es[i].timestamp : i \in 1 .. Len(es)}
    IN  [run_id |-> run_id, entries |-> EntriesRef,
         total_input_tokens |-> total_input,
         total_output_tokens |-> total_output,
         total_tokens |-> total_input + total_output,
         total_cost |-> total_cost,
         total_latency_ms |-> total_latency,
         avg_latency_ms |-> Div(total_latency, Len(es)),
         cost_per_question |-> Div(total_cost, Len(es)),
         model |-> es[1].model,
         started_at |-> CHOOSE t \in stamps : \A u \in stamps : t <= u,
         completed_at |-> CHOOSE t \in stamps : \A u \in stamps : u <= t]

\* The RunCosts aggregate_costs builds from a non-empty list.
RunCostsOf(es, run_id) ==
    LET total_input == sum(es, "input_tokens")
        total_output == sum(es, "output_tokens")
        total_cost == sum(es, "total_cost")
        total_latency == sum(es, "latency_ms")
    IN  [run_id |-> run_id, entries |-> EntriesRef,
         total_input_tokens |-> total_input,
         total_output_tokens |-> total_output,
         total_tokens |-> total_input + total_output,
         total_cost |-> total_cost,
         total_latency_ms |-> total_latency,
         avg_latency_ms |-> Div(total_latency, Len(es)),
         cost_per_question |-> Div(total_cost, Len(es)),
         model |-> es[1].model,
         started_at |-> es[1].timestamp,
         completed_at |-> es[Len(es)].timestamp]

\* Mutant: no guard; an empty list yields a zero-valued RunCosts.
aggregate_costs_zero_on_empty(es, run_id) ==
    IF es = <<>>
    THEN Return([run_id |-> run_id, entries |-> EntriesRef,
                 total_input_tokens |-> 0, total_output_tokens |-> 0,
                 total_tokens |-> 0, total_cost |-> 0, total_latency_ms |-> 0,
                 avg_latency_ms |-> Div(0, 1), cost_per_question |-> Div(0, 1),
                 model |-> "", started_at |-> 0, completed_at |-> 0])
    ELSE Return(RunCostsOf(es, run_id))

\* aggregate_costs(entries, run_id): what the call raises or returns.
aggregate_costs(es, run_id) ==
    IF es = <<>>
    THEN Raise("ValueError")
    ELSE Return(RunCostsOf(es, run_id))

----------------------------------------------------------------------------
(* The caller of a run: it prices calls, collects the entries in one list, *)
(* and aggregates the list.                                                *)

RunIds == {"run-a", "run-b"}

\* The LLM calls of a run, each with the clock reading at which it is priced.
RunCalls ==
    { [model |-> "gpt-4o", input_tokens |-> 40000, output_tokens |-> 0,
       latency_ms |-> 100, now |-> 3],
      [model |-> "gpt-4o", input_tokens |-> 80000, output_tokens |-> 0,
       latency_ms |-> 200, now |-> 1],
      [model |-> "gpt-4o", input_tokens |-> 120000, output_tokens |-> 0,
       latency_ms |-> 300, now |-> 2],
      [model |-> "claude-3-opus-20240229", input_tokens |-> 1, output_tokens |-> 2,
       latency_ms |-> 7, now |-> 2] }

NoRet == [called |-> FALSE, returned |-> FALSE]

\* entries.append(calculate_cost(...))
AppendEntry ==
    /\ Len(entries) < MaxEntries
    /\ \E c \in RunCalls :
          entries' = Append(entries,
                            calculate_cost(c.model, c.input_tokens,
                                           c.output_tokens, c.latency_ms, c.now))
    /\ UNCHANGED <<call, ret, file, last_ok, out_dir, saved_doc>>

\* entries.pop()
RemoveEntry ==
    /\ entries # <<>>
    /\ entries' = SubSeq(entries, 1, Len(entries) - 1)
    /\ UNCHANGED <<call, ret, file, last_ok, out_dir, saved_doc>>

\* aggregate_costs(entries, run_id); ret keeps the list's contents at the
\* time of the call beside what the call raised or returned.
Aggregate ==
    /\ \E run_id \in RunIds :
          LET r == aggregate_costs(entries, run_id)
          IN  ret' = [called |-> TRUE, entries |-> entries, run_id |-> run_id,
                      raised |-> r.raised, returned |-> r.returned,
                      value |-> r.value]
    /\ UNCHANGED <<call, entries, file, last_ok, out_dir, saved_doc>>

----------------------------------------------------------------------------
(* lib/costs.py: save_costs *)

\* The integers nearest to num / den (den > 0).  Python's round() decides a
\* decimal tie by the binary value of the float, which lies on either side
\* of the tie: both neighbours are possible results.
NearestInts(num, den) ==
    LET q == num \div den
        r == num % den
    IN  IF 2 * r < den THEN {q}
        ELSE IF 2 * r > den THEN {q + 1}
        ELSE {q, q + 1}

\* 10^-ndigits USD in nano-USD, and 10^-ndigits ms in ms.
UsdDigits(ndigits) == Div(10 ^ (9 - ndigits), 1)
MsDigits(ndigits) == Div(1, 10 ^ ndigits)

\* round(x, ndigits): the multiples of the step nearest to x.
round(x, step) ==
    { Div(m * step.num, step.den) :
        m \in NearestInts(x.num * step.den, x.den * step.num) }

\* dataclasses.asdict(e)
CostEntryFields ==
    {"model", "input_tokens", "output_tokens", "total_tokens", "input_cost",
     "output_cost", "total_cost", "latency_ms", "timestamp"}

asdict(e) == [k \in CostEntryFields |-> e[k]]

\* The dict `data` that save_costs builds from costs (one per rounding result).
save_costs_data(costs) ==
    LET es == Deref(costs.entries)
    IN  { [run_id |-> costs.run_id,
           model |-> costs.model,
           totals |-> [input_tokens |-> costs.total_input_tokens,
                       output_tokens |-> costs.total_output_tokens,
                       total_tokens |-> costs.total_tokens,
                       total_cost_usd |-> tc,
                       total_latency_ms |-> costs.total_latency_ms],
           averages |-> [latency_ms |-> al, cost_per_question_usd |-> cq],
           timing |-> [started_at |-> costs.started_at,
                       completed_at |-> costs.completed_at],
           entries |-> [i \in 1 .. Len(es) |-> asdict(es[i])]] :
          tc \in round(Div(costs.total_cost, 1), UsdDigits(4)),
          al \in round(costs.avg_latency_ms, MsDigits(2)),
          cq \in round(costs.cost_per_question, UsdDigits(6)) }

\* The keys of `data` in the order json.dump writes them.
DataKeys == <<"run_id", "model", "totals", "averages", "timing", "entries">>

\* A file's text as the members json.dump has written so far; the document
\* is complete when the last member is written.
Written(data, k) == [i \in 1 .. k |-> <<DataKeys[i], data[DataKeys[i]]>>]

Absent == [exists |-> FALSE, content |-> <<>>]

IsComplete(f) == f.exists /\ Len(f.content) = Len(DataKeys)

NoSave == [saved |-> FALSE]

\* save_costs(ret.value, path).  open(path, "w") may raise and leave the
\* path as it was; once it has opened the file is truncated, and json.dump
\* writes it piece by piece, so a failure of a write leaves what was written.
SaveCosts ==
    /\ ret.returned
    /\ \E data \in save_costs_data(ret.value) :
          \/ /\ UNCHANGED <<file, last_ok>>
          \/ /\ \E k \in 0 .. (Len(DataKeys) - 1) :
                   file' = [exists |-> TRUE, content |-> Written(data, k)]
             /\ UNCHANGED last_ok
          \/ /\ file' = [exists |-> TRUE, content |-> Written(data, Len(DataKeys))]
             /\ last_ok' = [saved |-> TRUE, file |-> file',
                            entries |-> Deref(ret.value.entries)]
    /\ UNCHANGED <<call, entries, ret, out_dir, saved_doc>>

----------------------------------------------------------------------------
(* lib/parse.py: save_parsed and load_parsed *)

MaxPages == 2       \* most pages of a parsed document
MaxTables == 1      \* most tables of a parsed document

\* The decimal digits of n, most significant first.
RECURSIVE Digits(_)
Digits(n) == IF n < 10 THEN <<n>> ELSE Append(Digits(n \div 10), n % 10)

\* f"page_{i + 1:03d}.txt": the number, zero-padded to three digits.  The
\* name is kept as its digits; "page_" and ".txt" are common to all names.
PageFile(n) ==
    LET d == Digits(n)
    IN  IF Len(d) >= 3 THEN d ELSE [i \in 1 .. 3 |-> IF i <= 3 - Len(d) THEN 0 ELSE d[i - (3 - Len(d))]]

\* String order of two page file names ("." sorts before every digit).
RECURSIVE NameLess(_, _)
NameLess(a, b) ==
    IF a = <<>> THEN b # <<>>
    ELSE IF b = <<>> THEN FALSE
    ELSE IF a[1] # b[1] THEN a[1] < b[1]
    ELSE NameLess(Tail(a), Tail(b))

\* sorted(os.listdir(pages_dir))
RECURSIVE sorted(_)
sorted(names) ==
    IF names = {} THEN <<>>
    ELSE LET m == CHOOSE x \in names : \A y \in names : x = y \/ NameLess(x, y)
         IN  <<m>> \o sorted(names \ {m})

\* An optional file: <<>> when it does not exist, <<content>> when it does.
NoDir ==
    [exists |-> FALSE, text |-> <<>>, tables |-> <<>>, meta |-> <<>>,
     pages_dir |-> FALSE, pages |-> <<>>]

\* save_parsed(doc, output_dir): the directory afterwards.
save_parsed(doc, dir) ==
    LET new == {PageFile(i) : i \in 1 .. Len(doc.pages)}
        page_of(n) == CHOOSE i \in 1 .. Len(doc.pages) : PageFile(i) = n
    IN  [exists |-> TRUE,
         text |-> <<doc.text>>,
         pages_dir |-> dir.pages_dir \/ doc.pages # <<>>,
         pages |-> [n \in DOMAIN dir.pages \cup new |->
                      IF n \in new THEN doc.pages[page_of(n)] ELSE dir.pages[n]],
         tables |-> IF doc.tables # <<>> THEN <<doc.tables>> ELSE dir.tables,
         meta |-> <<[source_path |-> doc.source_path, parser |-> doc.parser,
                     metadata |-> doc.metadata]>>]

\* load_parsed(output_dir), for a directory holding text.txt and metadata.json.
load_parsed(dir) ==
    LET meta == dir.meta[1]
        names == sorted(DOMAIN dir.pages)
    IN  [source_path |-> meta.source_path,
         parser |-> meta.parser,
         text |-> dir.text[1],
         pages |-> IF dir.pages_dir
                   THEN [i \in 1 .. Len(names) |-> dir.pages[names[i]]]
                   ELSE <<>>,
         tables |-> IF dir.tables # <<>> THEN dir.tables[1] ELSE <<>>,
         metadata |-> meta.metadata]

\* Sequences over S of length at most n.
SeqUpTo(S, n) == UNION {[1 .. k -> S] : k \in 0 .. n}

\* The documents the parsers hand to save_parsed.
ParsedDocs ==
    [source_path : {"a.pdf", "b.pdf"},
     parser : {"pypdf", "pdfplumber"},
     text : {"T1", "T2"},
     pages : SeqUpTo({"P", "Q"}, MaxPages),
     tables : SeqUpTo({[page |-> 1, data |-> <<<<"x">>>>]}, MaxTables),
     metadata : {[num_pages |-> 1], [num_pages |-> 2]}]

SaveParsed ==
    /\ \E doc \in ParsedDocs :
          /\ out_dir' = save_parsed(doc, out_dir)
          /\ saved_doc' = <<doc>>
    /\ UNCHANGED <<call, entries, ret, file, last_ok>>

----------------------------------------------------------------------------
(* Specifications *)

Init ==
    /\ call = NoCall
    /\ entries = <<>>
    /\ ret = NoRet
    /\ file = Absent
    /\ last_ok = NoSave
    /\ out_dir = NoDir
    /\ saved_doc = <<>>

\* A run: the caller builds the list, changes it and aggregates it.
Next == AppendEntry \/ RemoveEntry \/ Aggregate

Spec == Init /\ [][Next]_vars

\* Pricing single calls.
NextCalc == CalculateCost

SpecCalc == Init /\ [][NextCalc]_vars

\* A run that is persisted: the caller builds the list, aggregates and saves.
NextSave == AppendEntry \/ Aggregate \/ SaveCosts

SpecSave == Init /\ [][NextSave]_vars

\* Saving parsed documents to one output directory.
NextParsed == SaveParsed

SpecParsed == Init /\ [][NextParsed]_vars

----------------------------------------------------------------------------
(* Properties of calculate_cost (SpecCalc) *)

\* C5: every CostEntry returned by calculate_cost has total_tokens =
\* input_tokens + output_tokens and total_cost = input_cost + output_cost,
\* and carries the model, the token counts and the latency it was given.
C5_EntryTotalsAndInputsKept ==
    call.called =>
        LET e == call.result
            a == call.args
        IN  /\ e.total_tokens = e.input_tokens + e.output_tokens
            /\ e.total_cost = e.input_cost + e.output_cost
            /\ e.model = a.model
            /\ e.input_tokens = a.input_tokens
            /\ e.output_tokens = a.output_tokens
            /\ e.latency_ms = a.latency_ms

\* A priced call with both costs and the latency non-zero.
C5_PricedCallWitness ==
    /\ call.called
    /\ call.result.input_cost > 0
    /\ call.result.output_cost > 0
    /\ call.result.latency_ms > 0

\* C7: a model that is no key of PRICING does not make calculate_cost fail;
\* the entry has input_cost, output_cost and total_cost 0 and still
\* records the token counts.
C7_UnknownModelCostsZero ==
    (call.called /\ call.args.model \notin DOMAIN PRICING) =>
        LET e == call.result
            a == call.args
        IN  /\ e.input_cost = 0
            /\ e.output_cost = 0
            /\ e.total_cost = 0
            /\ e.input_tokens = a.input_tokens
            /\ e.output_tokens = a.output_tokens
            /\ e.total_tokens = a.input_tokens + a.output_tokens

\* An unknown model called with positive token counts.
C7_UnknownModelWitness ==
    /\ call.called
    /\ call.args.model = UnknownModel
    /\ call.args.input_tokens > 0
    /\ call.args.output_tokens > 0

\* C8: for a model of the pricing table, input_cost is input_tokens / 1M
\* times the model's input price, output_cost is output_tokens / 1M times
\* its output price (in nano-USD: tokens times the price per token), and
\* total_cost is their sum; gpt-4o-mini with 1,000,000 input and 500,000
\* output tokens costs 0.15, 0.30 and 0.45 USD.
C8_PricedModelCost ==
    (call.called /\ call.args.model \in DOMAIN PRICING) =>
        LET e == call.result
            a == call.args
        IN  /\ e.input_cost = a.input_tokens * PRICING[a.model].input
            /\ e.output_cost = a.output_tokens * PRICING[a.model].output
            /\ e.total_cost =
                   a.input_tokens * PRICING[a.model].input
                   + a.output_tokens * PRICING[a.model].output
            /\ a = ScenarioCall =>
                   /\ e.input_cost = 150000000
                   /\ e.output_cost = 300000000
                   /\ e.total_cost = 450000000

\* The gpt-4o-mini scenario has been priced.
C8_ScenarioWitness ==
    /\ call.called
    /\ call.args = ScenarioCall
    /\ call.result.total_cost = 450000000

----------------------------------------------------------------------------
(* Properties of aggregate_costs (Spec) *)

\* The total of a field over a sequence of entries, from the first entry on.
RECURSIVE FieldTotal(_, _)
FieldTotal(es, field) ==
    IF es = <<>> THEN 0 ELSE es[1][field] + FieldTotal(Tail(es), field)

\* C1: aggregate_costs called with an empty list, for any run_id, raises
\* (ValueError) and returns no RunCosts.
C1_EmptyListRaises ==
    (ret.called /\ ret.entries = <<>>) =>
        /\ ret.raised = "ValueError"
        /\ ~ret.returned

\* aggregate_costs has been called with the empty list.
C1_EmptyCallWitness ==
    /\ ret.called
    /\ ret.entries = <<>>
    /\ ret.run_id = "run-b"

\* C2: for a non-empty list aggregate_costs returns a RunCosts whose token,
\* cost and latency totals are the sums of the entries' fields, whose
\* total_tokens is total_input_tokens + total_output_tokens, and whose
\* avg_latency_ms and cost_per_question are the latency and cost totals
\* divided by the number of entries.
C2_TotalsAreSums ==
    (ret.called /\ ret.entries # <<>>) =>
        /\ ret.returned
        /\ LET v == ret.value
               es == ret.entries
           IN  /\ v.total_cost = FieldTotal(es, "total_cost")
               /\ v.total_input_tokens = FieldTotal(es, "input_tokens")
               /\ v.total_output_tokens = FieldTotal(es, "output_tokens")
               /\ v.total_latency_ms = FieldTotal(es, "latency_ms")
               /\ v.total_tokens = v.total_input_tokens + v.total_output_tokens
               /\ v.avg_latency_ms = Div(FieldTotal(es, "latency_ms"), Len(es))
               /\ v.cost_per_question = Div(FieldTotal(es, "total_cost"), Len(es))

\* Three entries costing 0.10, 0.20 and 0.30 USD with latencies 100, 200 and
\* 300 ms were aggregated: 0.60 USD, 600 ms, 0.60 / 3 and 600 / 3.
C2_ThreeEntriesWitness ==
    /\ ret.returned
    /\ Len(ret.entries) = 3
    /\ {ret.entries[i].total_cost : i \in 1 .. 3} = {100000000, 200000000, 300000000}
    /\ ret.value.total_cost = 600000000
    /\ ret.value.total_latency_ms = 600
    /\ ret.value.avg_latency_ms = Div(600, 3)
    /\ ret.value.cost_per_question = Div(600000000, 3)

\* C6: for a non-empty list, whatever the order of its timestamps and
\* whatever models it names, started_at is the first entry's timestamp,
\* completed_at the last entry's, and model the first entry's model.
C6_TimingFromFirstAndLast ==
    (ret.called /\ ret.entries # <<>>) =>
        /\ ret.returned
        /\ ret.value.started_at = ret.entries[1].timestamp
        /\ ret.value.completed_at = ret.entries[Len(ret.entries)].timestamp
        /\ ret.value.model = ret.entries[1].model

\* A list whose first entry is later than its last, naming two models, and
\* with an entry earlier than both ends, was aggregated.
C6_UnsortedWitness ==
    /\ ret.returned
    /\ Len(ret.entries) >= 3
    /\ ret.entries[1].timestamp > ret.entries[Len(ret.entries)].timestamp
    /\ \E i \in 1 .. Len(ret.entries) :
          ret.entries[i].timestamp < ret.entries[Len(ret.entries)].timestamp
    /\ \E i \in 1 .. Len(ret.entries) :
          ret.entries[i].model # ret.entries[1].model

\* C9: a RunCosts returned by aggregate_costs is not changed by what the
\* caller does afterwards: its entries are still the non-empty sequence it
\* was built from, and its totals and averages are still the sums and the
\* quotients over its own entries.
C9_RunCostsStaysConsistent ==
    ret.returned =>
        LET v == ret.value
            es == Deref(v.entries)
        IN  /\ es = ret.entries
            /\ es # <<>>
            /\ v.total_cost = FieldTotal(es, "total_cost")
            /\ v.total_input_tokens = FieldTotal(es, "input_tokens")
            /\ v.total_output_tokens = FieldTotal(es, "output_tokens")
            /\ v.total_tokens = v.total_input_tokens + v.total_output_tokens
            /\ v.total_latency_ms = FieldTotal(es, "latency_ms")
            /\ v.avg_latency_ms = Div(v.total_latency_ms, Len(es))
            /\ v.cost_per_question = Div(v.total_cost, Len(es))

----------------------------------------------------------------------------
(* Properties of save_costs (SpecSave) *)

\* json.load of a complete file: the dict of its members.
Reload(f) ==
    [k \in {f.content[i][1] : i \in 1 .. Len(f.content)} |->
        f.content[CHOOSE i \in 1 .. Len(f.content) : f.content[i][1] = k][2]]

Abs(x) == IF x < 0 THEN -x ELSE x

\* a and b differ by at most half a step.
Within(a, b, step) ==
    2 * Abs(a.num * b.den - b.num * a.den) * step.den <= step.num * a.den * b.den

\* C3: a saved and reloaded RunCosts has an entries list identical, entry by
\* entry and field by field, to the one saved, and the totals recomputed by
\* aggregating the reloaded entries match the reloaded summary: the counts
\* exactly, the cost to 4, the average latency to 2 and the cost per
\* question to 6 decimals.
C3_RoundTrip ==
    IsComplete(file) =>
        LET d == Reload(file)
            es == d.entries
            orig == last_ok.entries
        IN  /\ Len(es) = Len(orig)
            /\ \A i \in 1 .. Len(es) : \A k \in CostEntryFields : es[i][k] = orig[i][k]
            /\ aggregate_costs(es, d.run_id).returned
            /\ LET v == aggregate_costs(es, d.run_id).value
               IN  /\ d.totals.input_tokens = v.total_input_tokens
                   /\ d.totals.output_tokens = v.total_output_tokens
                   /\ d.totals.total_tokens = v.total_tokens
                   /\ d.totals.total_latency_ms = v.total_latency_ms
                   /\ Within(d.totals.total_cost_usd, Div(v.total_cost, 1), UsdDigits(4))
                   /\ Within(d.averages.latency_ms, v.avg_latency_ms, MsDigits(2))
                   /\ Within(d.averages.cost_per_question_usd, v.cost_per_question,
                             UsdDigits(6))

\* C4: a save_costs call that does not complete leaves a complete file
\* written earlier at the path with exactly its earlier content.
C4_FailedSaveKeepsFile ==
    [][(IsComplete(file) /\ ~(IsComplete(file') /\ last_ok'.file = file')) => file' = file]_vars

----------------------------------------------------------------------------
(* Properties of save_parsed / load_parsed (SpecParsed) *)

\* C10: after any sequence of save_parsed calls to one directory,
\* load_parsed returns the document saved last: its text, source_path,
\* parser, metadata, pages and tables, with nothing left of earlier saves.
C10_LoadReturnsLastSaved ==
    saved_doc # <<>> => load_parsed(out_dir) = saved_doc[1]

====
